---- MODULE Spec2Model ----
(***************************************************************************)
(* A model of AQIMapGenerator (src/aqi_map.py): the AQI classifier, the    *)
(* WGS84 -> TWD97 projection wrapper, the planar distance to the Taipei    *)
(* station, the CSV export, the map rendering loop, the fetch and run().   *)
(*                                                                         *)
(* Values decoded from the API's JSON are records [t, n, e, s]:            *)
(*   t = "int"    a Python int, n its value                                *)
(*   t = "float"  a finite Python float, the decimal n * 10^e of its       *)
(*                repr: n has no trailing zero, 0.0 is n = 0, e = 0        *)
(*   t = "inf"    the infinite floats, n = 1 or -1 (json.loads reads       *)
(*                1e999, Infinity and -Infinity)                           *)
(*   t = "nan"    the float NaN                                            *)
(*   t = "str"    a string, s its characters                               *)
(*   t = "null"   None                                                     *)
(*   t = "absent" the key is not in the station's dict                     *)
(* Projected coordinates are in centimetres, distances in hundredths of a  *)
(* kilometre (round(km, 2)).  Integers are TLC's, of 32 bits: a float     *)
(* with more than nine significant digits is outside the model.            *)
(***************************************************************************)
EXTENDS Integers, Sequences, FiniteSets, TLC

VARIABLES
    proj_ok,                \* environment: pyproj can build the transformer
    aqi_data,               \* self.aqi_data
    taipei_station_twd97,   \* self.taipei_station_twd97
    ref_projections,        \* how often the reference point was projected
    op,                     \* the method that returned last
    ret,                    \* what it returned (or the exception it raised)
    out,                    \* what it produced (rows, markers, file, ...)
    transform_log,          \* arguments handed to transformer.transform by op
    pc,                     \* position inside run(), "idle" outside of it
    calls,                  \* methods called by the current/last run(), in order
    aqi_map                 \* run()'s local aqi_map

vars == <<proj_ok, aqi_data, taipei_station_twd97, ref_projections, op, ret,
          out, transform_log, pc, calls, aqi_map>>

(***************************************************************************)
(* Bounds of the model.                                                    *)
(***************************************************************************)
MaxStations == 2

(***************************************************************************)
(* JSON / Python values.                                                   *)
(***************************************************************************)
PyInt(k)     == [t |-> "int",    n |-> k,  e |-> 0, s |-> <<>>]
Float(m, x)  == [t |-> "float",  n |-> m,  e |-> x, s |-> <<>>]
PyStr(chars) == [t |-> "str",    n |-> 0,  e |-> 0, s |-> chars]
PyInf        == [t |-> "inf",    n |-> 1,  e |-> 0, s |-> <<>>]
PyNegInf     == [t |-> "inf",    n |-> -1, e |-> 0, s |-> <<>>]
PyNaN        == [t |-> "nan",    n |-> 0,  e |-> 0, s |-> <<>>]
PyNone       == [t |-> "null",   n |-> 0,  e |-> 0, s |-> <<>>]
Absent       == [t |-> "absent", n |-> 0,  e |-> 0, s |-> <<>>]

\* The float m * 10^x, trailing zeros of m moved into the exponent.
RECURSIVE Norm(_, _)
Norm(m, x) ==
    IF m = 0 THEN Float(0, 0)
    ELSE IF m % 10 = 0 THEN Norm(m \div 10, x + 1)
    ELSE Float(m, x)

\* The float of m millionths.
PyFloat(m) == Norm(m, -6)

\* The result of an expression that may raise: exc = "none" and the value,
\* or the name of the exception.
Returns(v) == [exc |-> "none", v |-> v]
Raises(e)  == [exc |-> e, v |-> PyNone]

Digits == {"0", "1", "2", "3", "4", "5", "6", "7", "8", "9"}

DigitVal(c) ==
    CASE c = "0" -> 0 [] c = "1" -> 1 [] c = "2" -> 2 [] c = "3" -> 3
      [] c = "4" -> 4 [] c = "5" -> 5 [] c = "6" -> 6 [] c = "7" -> 7
      [] c = "8" -> 8 [] c = "9" -> 9

\* The whitespace that int() and float() strip from an ASCII string: blank,
\* tab, line feed, vertical tab, form feed, carriage return.
Whitespace == {" ", "\t", "\n", "", "\f", "\r"}

RECURSIVE LStrip(_)
LStrip(cs) ==
    IF cs # <<>> /\ Head(cs) \in Whitespace THEN LStrip(Tail(cs)) ELSE cs

RECURSIVE RStrip(_)
RStrip(cs) ==
    IF cs # <<>> /\ cs[Len(cs)] \in Whitespace
    THEN RStrip(SubSeq(cs, 1, Len(cs) - 1)) ELSE cs

Strip(cs) == RStrip(LStrip(cs))

HasSign(cs) == cs # <<>> /\ Head(cs) \in {"+", "-"}
Unsigned(cs) == IF HasSign(cs) THEN Tail(cs) ELSE cs
Sign(cs) == IF cs # <<>> /\ Head(cs) = "-" THEN -1 ELSE 1

\* A group of decimal digits as Python's numeric literals allow it: digits,
\* with single underscores between digits.
IsDigitGroup(cs) ==
    /\ cs # <<>>
    /\ cs[1] \in Digits
    /\ cs[Len(cs)] \in Digits
    /\ \A i \in 1..Len(cs) : cs[i] \in Digits \cup {"_"}
    /\ \A i \in 1..(Len(cs) - 1) : ~(cs[i] = "_" /\ cs[i + 1] = "_")

RECURSIVE DigitsValue(_, _)
DigitsValue(cs, acc) ==
    IF cs = <<>> THEN acc
    ELSE IF Head(cs) = "_" THEN DigitsValue(Tail(cs), acc)
    ELSE DigitsValue(Tail(cs), 10 * acc + DigitVal(Head(cs)))

\* int(str): whitespace stripped, an optional sign, one digit group.
IntOf(sign, body) ==
    IF IsDigitGroup(body) THEN Returns(PyInt(sign * DigitsValue(body, 0)))
    ELSE Raises("ValueError")

ParseInt(cs) == IntOf(Sign(Strip(cs)), Unsigned(Strip(cs)))

(***************************************************************************)
(* float(str): whitespace stripped, an optional sign, then "inf",          *)
(* "infinity" or "nan" in any case, or a decimal literal                   *)
(*     (d+ | d+. | d+.d+ | .d+) [(e | E) [sign] d+]                        *)
(* ip being the digits before the point, fp those after it.                *)
(***************************************************************************)
Lower(c) ==
    CASE c = "A" -> "a" [] c = "F" -> "f" [] c = "I" -> "i"
      [] c = "N" -> "n" [] c = "T" -> "t" [] c = "Y" -> "y"
      [] c = "E" -> "e" [] OTHER -> c

Lowered(cs) == [i \in 1..Len(cs) |-> Lower(cs[i])]

\* The position at or after i of the first character of cs in set, 0 when
\* there is none.
RECURSIVE FirstOf(_, _, _)
FirstOf(cs, set, i) ==
    IF i > Len(cs) THEN 0
    ELSE IF cs[i] \in set THEN i ELSE FirstOf(cs, set, i + 1)

DotAt(cs, i) == FirstOf(cs, {"."}, i)
ExpAt(cs, i) == FirstOf(cs, {"e", "E"}, i)

\* The digits of a digit group, underscores removed.
OnlyDigits(cs) == SelectSeq(cs, LAMBDA c : c # "_")

RECURSIVE DropZerosL(_)
DropZerosL(ds) ==
    IF ds # <<>> /\ Head(ds) = "0" THEN DropZerosL(Tail(ds)) ELSE ds

RECURSIVE DropZerosR(_)
DropZerosR(ds) ==
    IF ds # <<>> /\ ds[Len(ds)] = "0"
    THEN DropZerosR(SubSeq(ds, 1, Len(ds) - 1)) ELSE ds

\* 0.a > 0.b for digit sequences a and b without trailing zeros.
RECURSIVE FracGreater(_, _)
FracGreater(a, b) ==
    IF a = <<>> THEN FALSE
    ELSE IF b = <<>> THEN TRUE
    ELSE IF Head(a) # Head(b) THEN DigitVal(Head(a)) > DigitVal(Head(b))
    ELSE FracGreater(Tail(a), Tail(b))

FracGeq(a, b) == ~FracGreater(b, a)

\* float() rounds the literal to the nearest double.  A literal from
\* 2^1024 - 2^970 = 1.797693134862315807937...e308 on is inf: one up to
\* MaxFiniteDigits is below it, one from MinInfDigits on is above it.  A
\* literal up to 2^-1075 = 2.4703282292062327208...e-324 is 0.0, as is one
\* up to MinDoubleDigits.  From 2^-1022 = 2.2250738585072013830...e-308 on
\* the doubles are normal, and a literal of the model (at most ten digits)
\* is the repr of the double nearest to it; such a literal is normal from
\* MinNormalDigits on.
MaxFiniteDigits ==
    <<"1", "7", "9", "7", "6", "9", "3", "1", "3", "4", "8", "6", "2", "3",
      "1", "5", "8">>
MinInfDigits ==
    <<"1", "7", "9", "7", "6", "9", "3", "1", "3", "4", "8", "6", "2", "3",
      "1", "5", "8", "1">>
MinNormalDigits ==
    <<"2", "2", "2", "5", "0", "7", "3", "8", "5", "8", "5", "0", "7", "2",
      "0", "1", "4">>
MinDoubleDigits ==
    <<"2", "4", "7", "0", "3", "2", "8", "2", "2", "9", "2", "0", "6", "2",
      "3", "2", "7">>

IsInf(ds, mag) == mag > 309 \/ (mag = 309 /\ FracGeq(ds, MinInfDigits))
IsZeroLiteral(ds, mag) ==
    mag < -323 \/ (mag = -323 /\ ~FracGreater(ds, MinDoubleDigits))
IsNormal(ds, mag) ==
    /\ mag > -307 \/ (mag = -307 /\ FracGeq(ds, MinNormalDigits))
    /\ mag < 309 \/ (mag = 309 /\ ~FracGreater(ds, MaxFiniteDigits))

\* The float sign * 0.ds * 10^mag = sign * ds * 10^x, ds significant digits
\* without leading or trailing zero.  The model has no value for a literal
\* that rounds to a subnormal double, nor for one between MaxFiniteDigits
\* and MinInfDigits.
InRange(sign, ds, x, mag) ==
    CASE IsInf(ds, mag) -> Returns(IF sign = 1 THEN PyInf ELSE PyNegInf)
      [] IsZeroLiteral(ds, mag) -> Returns(Float(0, 0))
      [] IsNormal(ds, mag) -> Returns(Float(sign * DigitsValue(ds, 0), x))

Ranged(sign, ds, x) ==
    IF ds = <<>> THEN Returns(Float(0, 0))
    ELSE InRange(sign, ds, x, Len(ds) + x)

\* ds the digits of the literal, x the exponent of its last digit.
Scaled(sign, ds, x) ==
    Ranged(sign, DropZerosL(DropZerosR(ds)),
           x + (Len(ds) - Len(DropZerosR(ds))))

\* The exponent part after "e": an optional sign and a digit group.
NoExp == [ok |-> TRUE, v |-> 0]
ExpOf(cs) ==
    IF IsDigitGroup(Unsigned(cs))
    THEN [ok |-> TRUE, v |-> Sign(cs) * DigitsValue(Unsigned(cs), 0)]
    ELSE [ok |-> FALSE, v |-> 0]

FloatOf(sign, ip, fp, expo) ==
    IF /\ ip = <<>> \/ IsDigitGroup(ip)
       /\ fp = <<>> \/ IsDigitGroup(fp)
       /\ ip # <<>> \/ fp # <<>>
       /\ expo.ok
    THEN Scaled(sign, OnlyDigits(ip) \o OnlyDigits(fp),
                expo.v - Len(OnlyDigits(fp)))
    ELSE Raises("ValueError")

SplitAt(sign, body, dot, expo) ==
    IF dot = 0 THEN FloatOf(sign, body, <<>>, expo)
    ELSE FloatOf(sign, SubSeq(body, 1, dot - 1),
                 SubSeq(body, dot + 1, Len(body)), expo)

SplitExp(sign, body, at) ==
    IF at = 0 THEN SplitAt(sign, body, DotAt(body, 1), NoExp)
    ELSE SplitAt(sign, SubSeq(body, 1, at - 1),
                 DotAt(SubSeq(body, 1, at - 1), 1),
                 ExpOf(SubSeq(body, at + 1, Len(body))))

FloatBody(sign, body) ==
    IF Lowered(body) \in { <<"i", "n", "f">>,
                           <<"i", "n", "f", "i", "n", "i", "t", "y">> }
    THEN Returns(IF sign = 1 THEN PyInf ELSE PyNegInf)
    ELSE IF Lowered(body) = <<"n", "a", "n">> THEN Returns(PyNaN)
    ELSE SplitExp(sign, body, ExpAt(body, 1))

ParseFloat(cs) == FloatBody(Sign(Strip(cs)), Unsigned(Strip(cs)))

\* m with its last k digits dropped, m with k zeros appended (m >= 0).
RECURSIVE DropDigits(_, _)
DropDigits(m, k) == IF k = 0 \/ m = 0 THEN m ELSE DropDigits(m \div 10, k - 1)

RECURSIVE AddZeros(_, _)
AddZeros(m, k) == IF k = 0 THEN m ELSE AddZeros(10 * m, k - 1)

Abs(m) == IF m >= 0 THEN m ELSE -m

\* The integer part of |f| for a finite float f.
AbsTrunc(f) ==
    IF f.e >= 0 THEN AddZeros(Abs(f.n), f.e) ELSE DropDigits(Abs(f.n), -f.e)

\* Truncation toward zero, as int(float) does.
Trunc(f) == IF f.n >= 0 THEN AbsTrunc(f) ELSE -AbsTrunc(f)

\* int(x), as called at src/aqi_map.py:70 and :84.
py_int(x) ==
    CASE x.t = "int"   -> Returns(x)
      [] x.t = "float" -> Returns(PyInt(Trunc(x)))
      [] x.t = "inf"   -> Raises("OverflowError")
      [] x.t = "nan"   -> Raises("ValueError")
      [] x.t = "str"   -> ParseInt(x.s)
      [] OTHER         -> Raises("TypeError")

\* float(x), as called at src/aqi_map.py:215 and :216 (and by pyproj on the
\* scalars handed to Transformer.transform).
py_float(x) ==
    CASE x.t = "int"   -> Returns(Norm(x.n, 0))
      [] x.t = "float" -> Returns(x)
      [] x.t = "inf"   -> Returns(x)
      [] x.t = "nan"   -> Returns(x)
      [] x.t = "str"   -> ParseFloat(x.s)
      [] OTHER         -> Raises("TypeError")

\* station.get(key, default)
get(station, key, default) ==
    IF station[key] = Absent THEN default ELSE station[key]

(***************************************************************************)
(* Station Classifier (get_aqi_color, get_aqi_level).  The level labels    *)
(* are the source's Chinese labels in translation: "abnormal data",        *)
(* "good", "moderate", "unhealthy".                                        *)
(***************************************************************************)
\* r is the outcome of int(aqi_value): ValueError and TypeError are caught
\* (lines 71 and 85), any other exception leaves the method.
color_of(r) ==
    IF r.exc \in {"ValueError", "TypeError"} THEN Returns("#808080")
    ELSE IF r.exc # "none" THEN Raises(r.exc)
    ELSE IF r.v.n <= 50 THEN Returns("#00E400")
    ELSE IF r.v.n <= 100 THEN Returns("#FFFF00")
    ELSE Returns("#FF0000")

get_aqi_color(aqi_value) == color_of(py_int(aqi_value))

level_of(r) ==
    IF r.exc \in {"ValueError", "TypeError"} THEN Returns("abnormal data")
    ELSE IF r.exc # "none" THEN Raises(r.exc)
    ELSE IF r.v.n <= 50 THEN Returns("good")
    ELSE IF r.v.n <= 100 THEN Returns("moderate")
    ELSE Returns("unhealthy")

get_aqi_level(aqi_value) == level_of(py_int(aqi_value))

(***************************************************************************)
(* Coordinate Transformer.  pyproj is a library outside the repository;    *)
(* Transformer.transform is tabulated on the coordinates of the model:     *)
(* the Taipei station, the Keelung station of debug_twd97.py and 0 (the    *)
(* default of a missing key), each as latitude and as longitude, with the  *)
(* TM2-121 easting and northing (GRS80, central meridian 121, scale        *)
(* 0.9999, false easting 250000 m) rounded to the centimetre.  Without     *)
(* errcheck pyproj returns inf for a point it cannot project (an infinite  *)
(* coordinate, a latitude beyond 90 degrees) and NaN for a NaN.            *)
(***************************************************************************)
LatTaipei == 25047800
LonTaipei == 121517000
LatKeelung == 25129167
LonKeelung == 121760056

Point(x, y) == [some |-> TRUE,  kind |-> "finite", x |-> x, y |-> y]
InfPoint    == [some |-> TRUE,  kind |-> "inf",    x |-> 0, y |-> 0]
NanPoint    == [some |-> TRUE,  kind |-> "nan",    x |-> 0, y |-> 0]
None        == [some |-> FALSE, kind |-> "none",   x |-> 0, y |-> 0]

\* |lat| > 90 for a finite float lat.
OutOfDomain(lat) ==
    IF lat.e >= 2 THEN lat.n # 0
    ELSE IF lat.e = 1 THEN Abs(lat.n) > 9
    ELSE AbsTrunc(lat) > 90 \/ (AbsTrunc(lat) = 90 /\ lat.e < 0)

TM2(lat, lon) ==
    CASE lat = PyFloat(0) /\ lon = PyFloat(0) ->
             Point(-795075063, 2000193107)
      [] lat = PyFloat(0) /\ lon = PyFloat(LonTaipei) ->
             Point(30754721, 0)
      [] lat = PyFloat(0) /\ lon = PyFloat(LonKeelung) ->
             Point(33460308, 0)
      [] lat = PyFloat(LatTaipei) /\ lon = PyFloat(0) ->
             Point(-636701280, 1531016821)
      [] lat = PyFloat(LatTaipei) /\ lon = PyFloat(LonTaipei) ->
             Point(30216623, 277117164)
      [] lat = PyFloat(LatTaipei) /\ lon = PyFloat(LonKeelung) ->
             Point(32669179, 277128736)
      [] lat = PyFloat(LatKeelung) /\ lon = PyFloat(0) ->
             Point(-635871188, 1529850364)
      [] lat = PyFloat(LatKeelung) /\ lon = PyFloat(LonTaipei) ->
             Point(30213174, 278018434)
      [] lat = PyFloat(LatKeelung) /\ lon = PyFloat(LonKeelung) ->
             Point(32664109, 278030034)

EPSG3826(lat, lon) ==
    IF lat.t = "inf" \/ lon.t = "inf" THEN InfPoint
    ELSE IF lat.t = "nan" \/ lon.t = "nan" THEN NanPoint
    ELSE IF OutOfDomain(lat) THEN InfPoint
    ELSE TM2(lat, lon)

\* Transformer.from_crs(...).transform(lat, lon): from_crs raises when pyproj
\* cannot build the transformer; transform converts each scalar with float()
\* (la, lo) and raises TypeError when that fails.
transform_floats(la, lo) ==
    IF la.exc # "none" \/ lo.exc # "none" THEN Raises("TypeError")
    ELSE Returns(EPSG3826(la.v, lo.v))

Transformer_transform(lat, lon) ==
    IF ~proj_ok THEN Raises("CRSError")
    ELSE transform_floats(py_float(lat), py_float(lon))

\* lines 100-104: the point, or None when the transform raised.
point_or_none(r) == IF r.exc = "none" THEN r.v ELSE None

wgs84_to_twd97(lat, lon) == point_or_none(Transformer_transform(lat, lon))

(***************************************************************************)
(* Distance Calculator.  The squares of the differences exceed 32 bits:    *)
(* they are computed on naturals written in base 10000, least significant  *)
(* limb first, without leading zero limb.                                  *)
(***************************************************************************)
Base == 100 * 100

RECURSIVE Big(_)
Big(k) == IF k = 0 THEN <<>> ELSE <<k % Base>> \o Big(k \div Base)

Limb(a) == IF a = <<>> THEN 0 ELSE Head(a)
Rest(a) == IF a = <<>> THEN <<>> ELSE Tail(a)

\* a + b + c, c a carry.
RECURSIVE BigAdd(_, _, _)
RECURSIVE BigAddLimb(_, _, _)
BigAddLimb(a, b, sum) == <<sum % Base>> \o BigAdd(Rest(a), Rest(b), sum \div Base)

BigAdd(a, b, c) ==
    IF a = <<>> /\ b = <<>> THEN Big(c)
    ELSE BigAddLimb(a, b, Limb(a) + Limb(b) + c)

\* a * k + c for 0 < k < Base.
RECURSIVE BigScale(_, _, _)
RECURSIVE BigScaleLimb(_, _, _)
BigScaleLimb(a, k, prod) == <<prod % Base>> \o BigScale(Tail(a), k, prod \div Base)

BigScale(a, k, c) ==
    IF a = <<>> THEN Big(c) ELSE BigScaleLimb(a, k, Head(a) * k + c)

Shift(a) == IF a = <<>> THEN <<>> ELSE <<0>> \o a

RECURSIVE BigMul(_, _)
BigMul(a, b) ==
    IF a = <<>> \/ b = <<>> THEN <<>>
    ELSE IF Head(b) = 0 THEN Shift(BigMul(a, Tail(b)))
    ELSE BigAdd(BigScale(a, Head(b), 0), Shift(BigMul(a, Tail(b))), 0)

BigSquare(k) == BigMul(Big(k), Big(k))

\* a <= b, comparing from limb i down.
RECURSIVE LimbsLeq(_, _, _)
LimbsLeq(a, b, i) ==
    IF i = 0 THEN TRUE
    ELSE IF a[i] # b[i] THEN a[i] < b[i]
    ELSE LimbsLeq(a, b, i - 1)

BigLeq(a, b) ==
    Len(a) < Len(b) \/ (Len(a) = Len(b) /\ LimbsLeq(a, b, Len(a)))

\* (1000 * d - 500)^2 = 250000 * (2 * d - 1)^2: the square, in square
\* centimetres, of the distance halfway between d - 1 and d hundredths of a
\* kilometre.
HalfwaySquare(d) == BigScale(BigScale(BigSquare(2 * d - 1), 500, 0), 500, 0)

\* sqrt(sq) is at least halfway between d - 1 and d.
Reaches(d, sq) == d = 0 \/ BigLeq(HalfwaySquare(d), sq)

RECURSIVE RoundIn(_, _, _)
RoundIn(sq, lo, hi) ==
    IF lo >= hi THEN lo
    ELSE IF Reaches((lo + hi + 1) \div 2, sq)
         THEN RoundIn(sq, (lo + hi + 1) \div 2, hi)
         ELSE RoundIn(sq, lo, ((lo + hi + 1) \div 2) - 1)

Max(a, b) == IF a >= b THEN a ELSE b

\* A point of the model is a projection to the centimetre: Point(x, y)
\* stands for every pair of doubles within half a centimetre of x and y, and
\* the distance of two points is known to within sqrt(2) cm.  The result d
\* is settled when the distance is two centimetres or more away from
\* halfway to d - 1 and from halfway to d + 1: then every such pair of doubles gives d,
\* whatever the rounding of the subtraction, the square root, the division
\* and round().
\* (1000 * d - 498)^2 <= sq <= (1000 * d + 498)^2, on the halves to stay
\* within 32 bits.
Settled(d, sq) ==
    /\ d = 0 \/ BigLeq(BigScale(BigSquare(500 * d - 249), 4, 0), sq)
    /\ BigLeq(sq, BigScale(BigSquare(500 * d + 249), 4, 0))

\* d is the largest result that sqrt(sq) reaches.  Nearer to halfway the
\* result depends on the last bits of the doubles, which the model does
\* not have: there it has no value.
Settle(d, sq) == CASE Settled(d, sq) -> d

\* dx and dy the absolute differences in centimetres: the distance lies
\* between the larger of them and their sum.
FromSquare(sq, dx, dy) ==
    Settle(RoundIn(sq, Max(dx, dy) \div 1000,
                   (dx \div 1000) + (dy \div 1000) + 2), sq)

\* round(math.sqrt(sq) / 1000, 2), sq in square metres, for dx and dy in
\* centimetres and the result in hundredths of a kilometre.
Round2Hypot(dx, dy) ==
    FromSquare(BigAdd(BigSquare(dx), BigSquare(dy), 0), dx, dy)

Distance(d)  == [some |-> TRUE,  kind |-> "finite", km100 |-> d]
InfDistance  == [some |-> TRUE,  kind |-> "inf",    km100 |-> 0]
NanDistance  == [some |-> TRUE,  kind |-> "nan",    km100 |-> 0]
NoDistance   == [some |-> FALSE, kind |-> "none",   km100 |-> 0]

\* lines 111-125: None when the station's projection is None, and when the
\* subtraction raises because the reference projection is None; inf - inf
\* is NaN, and round(x, 2) of a non-finite x is x.
distance_between(station_twd97, reference) ==
    IF ~station_twd97.some THEN NoDistance
    ELSE IF ~reference.some THEN NoDistance
    ELSE IF station_twd97.kind = "nan" \/ reference.kind = "nan"
    THEN NanDistance
    ELSE IF station_twd97.kind = "inf" /\ reference.kind = "inf"
    THEN NanDistance
    ELSE IF station_twd97.kind = "inf" \/ reference.kind = "inf"
    THEN InfDistance
    ELSE Distance(Round2Hypot(Abs(station_twd97.x - reference.x),
                              Abs(station_twd97.y - reference.y)))

\* A variant that projects the reference point again on every call.
calculate_distance_twd97_reprojecting(self, lat, lon) ==
    [ret |-> distance_between(wgs84_to_twd97(lat, lon),
                 wgs84_to_twd97(PyFloat(LatTaipei), PyFloat(LonTaipei))),
     transformed |-> IF proj_ok THEN << <<lat, lon>> >> ELSE <<>>,
     ref_projected |-> 1]

\* A variant that measures from the origin of the plane, not from the
\* reference point.
calculate_distance_twd97_from_origin(self, lat, lon) ==
    [ret |-> distance_between(wgs84_to_twd97(lat, lon),
                 IF self.taipei_station_twd97.some THEN Point(0, 0) ELSE None),
     transformed |-> IF proj_ok THEN << <<lat, lon>> >> ELSE <<>>,
     ref_projected |-> 0]

\* calculate_distance_twd97(self, lat, lon): ret is what it returns;
\* transformed are the argument pairs it hands to transformer.transform;
\* ref_projected counts its projections of the reference point.
calculate_distance_twd97(self, lat, lon) ==
    [ret |-> distance_between(wgs84_to_twd97(lat, lon),
                              self.taipei_station_twd97),
     transformed |-> IF proj_ok THEN << <<lat, lon>> >> ELSE <<>>,
     ref_projected |-> 0]

\* The generator, as far as calculate_distance_twd97 reads it.
Self == [taipei_station_twd97 |-> taipei_station_twd97]

(***************************************************************************)
(* Inputs of the model.                                                    *)
(***************************************************************************)
S_NA         == <<"N", "/", "A">>
S_Empty      == <<>>
S_LatTaipei  == <<"2", "5", ".", "0", "4", "7", "8">>
S_LonTaipei  == <<"1", "2", "1", ".", "5", "1", "7", "0">>
S_LatKeelung == <<"2", "5", ".", "1", "2", "9", "1", "6", "7">>
S_LonKeelung == <<"1", "2", "1", ".", "7", "6", "0", "0", "5", "6">>

Station(lat, lon, aqi) == [latitude |-> lat, longitude |-> lon, aqi |-> aqi]

\* The station records of the model, fields as the API's JSON may carry them.
Stations ==
    { \* numbers, at the reference point itself
      Station(PyFloat(LatTaipei), PyFloat(LonTaipei), PyStr(<<"2", "5">>)),
      \* numeric strings
      Station(PyStr(S_LatKeelung), PyStr(S_LonKeelung), PyInt(150)),
      \* a non-finite AQI
      Station(PyStr(S_LatKeelung), PyStr(S_LonKeelung), PyInf),
      \* a non-numeric latitude, and a non-finite AQI
      Station(PyStr(S_NA), PyStr(S_LonTaipei), PyInf),
      \* a latitude present but null, an empty AQI
      Station(PyNone, PyStr(S_LonKeelung), PyStr(S_Empty)),
      \* no latitude, longitude or aqi key
      Station(Absent, Absent, Absent),
      \* a latitude of 0
      Station(PyInt(0), PyStr(S_LonTaipei), PyStr(<<"7", "5">>)),
      \* an AQI that is not available
      Station(PyFloat(LatKeelung), PyFloat(LonTaipei), PyStr(S_NA)) }

\* An element of the data is a JSON object (a dict, with .get) or not.
IsDict(element) == "latitude" \in DOMAIN element

\* The elements of a JSON list: station records, or a value that is no
\* object.
Elements == Stations \cup {PyInt(5)}

StationLists == UNION { [1..k -> Elements] : k \in 0..MaxStations }

\* self.aqi_data: None, a list, a JSON number (true and false are the
\* numbers 1 and 0), a string or a JSON object; v holds the elements that
\* iterating over it yields (the characters of a string, the keys of an
\* object), x the number.
DataNone        == [k |-> "None", v |-> <<>>, x |-> PyNone]
DataList(l)     == [k |-> "list", v |-> l, x |-> PyNone]
DataNumber(x)   == [k |-> "number", v |-> <<>>, x |-> x]
DataStr(chars)  ==
    [k |-> "str", v |-> [i \in 1..Len(chars) |-> PyStr(<<chars[i]>>)],
     x |-> PyNone]
DataDict(keys)  ==
    [k |-> "dict", v |-> [i \in 1..Len(keys) |-> PyStr(keys[i])],
     x |-> PyNone]

\* What requests.get(...) and response.json() deliver: an exception of
\* requests, a JSON list, a JSON object with a "value" (a list, null, a
\* number, a string or an object), or any other JSON.  A list inside "value"
\* leaves the same state as the bare list, so those are enumerated up to one
\* element.
Responses ==
    {[kind |-> "RequestException", data |-> DataNone]}
    \cup {[kind |-> "list", data |-> DataList(l)] : l \in StationLists}
    \cup {[kind |-> "dict_value", data |-> DataList(l)] :
              l \in {<<>>} \cup {<<s>> : s \in Elements}}
    \cup {[kind |-> "dict_value", data |-> DataNone],
          [kind |-> "dict_value", data |-> DataNumber(PyInt(5))],
          [kind |-> "dict_value", data |-> DataNumber(PyInt(0))],
          [kind |-> "dict_value", data |-> DataStr(<<"a", "b", "c">>)],
          [kind |-> "dict_value", data |-> DataStr(<<>>)],
          [kind |-> "dict_value", data |-> DataDict(<< <<"a">> >>)],
          [kind |-> "dict_other", data |-> DataNone]}

\* len(self.aqi_data) and iteration are defined.
Sized(d) == d.k \in {"list", "str", "dict"}

\* bool(self.aqi_data): a non-empty list, string or object, a number that
\* is not zero.
Truthy(d) ==
    \/ Sized(d) /\ d.v # <<>>
    \/ d.k = "number" /\ ~(d.x.t \in {"int", "float"} /\ d.x.n = 0)

NoMap == [is_map |-> FALSE, markers |-> <<>>, valid_stations |-> 0]

(***************************************************************************)
(* fetch_aqi_data.  aqi_data is what self.aqi_data holds on return, ret    *)
(* the value returned.                                                     *)
(***************************************************************************)
fetch_aqi_data(resp) ==
    CASE resp.kind = "RequestException" ->
             [aqi_data |-> aqi_data, ret |-> "False"]
      [] resp.kind = "list" ->
             [aqi_data |-> resp.data, ret |-> "True"]
      [] resp.kind = "dict_value" ->
             \* assigned at line 52; len() at line 56 raises TypeError on
             \* None and on a number, caught at line 63
             [aqi_data |-> resp.data,
              ret |-> IF Sized(resp.data) THEN "True" ELSE "False"]
      [] OTHER ->
             [aqi_data |-> aqi_data, ret |-> "False"]

(***************************************************************************)
(* export_to_csv.                                                          *)
(***************************************************************************)
\* Lines 149-163: the row appended for station i, or none when building it
\* raised (any exception is caught at line 161).  "station" stands for the
\* columns that identify the row (name, county, publish time).
row_with(i, lat, lon, aqi, distance, level) ==
    [rows |-> IF level.exc # "none" THEN <<>>
              ELSE << [station |-> i, AQI |-> aqi, level |-> level.v,
                       lat |-> lat, lon |-> lon,
                       distance |-> distance.ret] >>,
     transformed |-> distance.transformed,
     ref_projected |-> distance.ref_projected]

\* Lines 145-147.
row_of(i, lat, lon, aqi) ==
    row_with(i, lat, lon, aqi, calculate_distance_twd97(Self, lat, lon),
             get_aqi_level(aqi))

NoRow == [rows |-> <<>>, transformed |-> <<>>, ref_projected |-> 0]

\* An element without .get raises AttributeError at line 145.
csv_row(stations, i) ==
    IF ~IsDict(stations[i]) THEN NoRow
    ELSE row_of(i, get(stations[i], "latitude", PyInt(0)),
                   get(stations[i], "longitude", PyInt(0)),
                   get(stations[i], "aqi", PyStr(S_NA)))

rows_append(one, rest) ==
    [rows |-> one.rows \o rest.rows,
     transformed |-> one.transformed \o rest.transformed,
     ref_projected |-> one.ref_projected + rest.ref_projected]

\* The loop of lines 143-163 from station i on.
RECURSIVE csv_loop(_, _)
csv_loop(stations, i) ==
    IF i > Len(stations) THEN NoRow
    ELSE rows_append(csv_row(stations, i), csv_loop(stations, i + 1))

no_export(r, made) ==
    [ret |-> r, rows |-> <<>>, made |-> made, written |-> FALSE,
     transformed |-> <<>>, ref_projected |-> 0]

\* Lines 166-174: the file is written when it can be opened (io_ok).
write_csv(loop, io_ok) ==
    [ret |-> IF io_ok THEN "True" ELSE "False",
     rows |-> loop.rows,
     made |-> TRUE,
     written |-> io_ok,
     transformed |-> loop.transformed,
     ref_projected |-> loop.ref_projected]

\* ret: the value returned; rows: csv_data; made: os.makedirs (line 139)
\* succeeded; written: the file was written.  dir_ok: the outputs directory
\* exists or can be made; when os.makedirs raises, the handler of line 176
\* returns False before the loop.  Iterating over a number raises TypeError
\* inside the same try.
export_to_csv(dir_ok, io_ok) ==
    IF ~Truthy(aqi_data) THEN no_export("False", FALSE)
    ELSE IF ~dir_ok THEN no_export("False", FALSE)
    ELSE IF ~Sized(aqi_data) THEN no_export("False", TRUE)
    ELSE write_csv(csv_loop(aqi_data.v, 1), io_ok)

(***************************************************************************)
(* create_map.                                                             *)
(***************************************************************************)
IsZero(f) == f.t = "float" /\ f.n = 0

Skip == [kind |-> "skip"]
Leave(e) == [kind |-> "raise", exc |-> e]
Caught == {"ValueError", "KeyError"}

\* The body of the loop (lines 213-258) for station i, lat and lon being the
\* outcomes of float(), color and level those of the classifier: the station
\* is skipped, gets a marker, or an exception that line 256 does not catch
\* leaves create_map.  folium.CircleMarker raises ValueError on a location
\* that holds a NaN.
marker_with(i, lat, lon, color, level) ==
    IF lat.exc \in Caught THEN Skip
    ELSE IF lat.exc # "none" THEN Leave(lat.exc)
    ELSE IF lon.exc \in Caught THEN Skip
    ELSE IF lon.exc # "none" THEN Leave(lon.exc)
    ELSE IF IsZero(lat.v) \/ IsZero(lon.v) THEN Skip
    ELSE IF color.exc \in Caught THEN Skip
    ELSE IF color.exc # "none" THEN Leave(color.exc)
    ELSE IF level.exc \in Caught THEN Skip
    ELSE IF level.exc # "none" THEN Leave(level.exc)
    ELSE IF lat.v.t = "nan" \/ lon.v.t = "nan" THEN Skip
    ELSE [kind |-> "marker",
          marker |-> [station |-> i, location |-> <<lat.v, lon.v>>,
                      fillColor |-> color.v, level |-> level.v]]

marker_of(i, lat, lon, aqi) ==
    marker_with(i, py_float(lat), py_float(lon),
                get_aqi_color(aqi), get_aqi_level(aqi))

\* An element without .get raises AttributeError at line 215.
station_marker(stations, i) ==
    IF ~IsDict(stations[i]) THEN Leave("AttributeError")
    ELSE marker_of(i, get(stations[i], "latitude", PyInt(0)),
                      get(stations[i], "longitude", PyInt(0)),
                      get(stations[i], "aqi", PyStr(S_NA)))

\* The loop of lines 212-258 from station i on, with the markers added to
\* the map and the counter valid_stations so far: exc is "none" when the loop
\* ends, else the exception that leaves create_map.
RECURSIVE map_loop(_, _, _, _)
RECURSIVE map_step(_, _, _, _, _)
map_step(stations, i, markers, valid_stations, did) ==
    CASE did.kind = "skip"   -> map_loop(stations, i + 1, markers, valid_stations)
      [] did.kind = "raise"  -> [exc |-> did.exc, markers |-> markers,
                                 valid_stations |-> valid_stations]
      [] did.kind = "marker" -> map_loop(stations, i + 1,
                                         Append(markers, did.marker),
                                         valid_stations + 1)

map_loop(stations, i, markers, valid_stations) ==
    IF i > Len(stations)
    THEN [exc |-> "none", markers |-> markers, valid_stations |-> valid_stations]
    ELSE map_step(stations, i, markers, valid_stations,
                  station_marker(stations, i))

Map(loop) ==
    [is_map |-> TRUE, markers |-> loop.markers,
     valid_stations |-> loop.valid_stations]

map_result(loop) ==
    IF loop.exc = "none" THEN [ret |-> "Map", map |-> Map(loop)]
    ELSE [ret |-> loop.exc, map |-> Map(loop)]

\* ret is "None", "Map" or the exception raised; map is the folium map with
\* the markers added to it and the counter of line 254.  Iterating over a
\* number raises TypeError.
create_map ==
    IF ~Truthy(aqi_data) THEN [ret |-> "None", map |-> NoMap]
    ELSE IF ~Sized(aqi_data) THEN [ret |-> "TypeError", map |-> NoMap]
    ELSE map_result(map_loop(aqi_data.v, 1, <<>>, 0))


(***************************************************************************)
(* save_map.  io_ok: map_obj.save(filename) succeeds.                      *)
(***************************************************************************)
save_map(map_obj, io_ok) ==
    IF ~map_obj.is_map THEN "False"
    ELSE IF io_ok THEN "True" ELSE "False"

(***************************************************************************)
(* The generator after __init__ (lines 24-32): no data, the reference      *)
(* point projected once.                                                   *)
(***************************************************************************)
Init ==
    /\ proj_ok \in BOOLEAN
    /\ aqi_data = DataNone
    /\ taipei_station_twd97 = wgs84_to_twd97(PyFloat(LatTaipei), PyFloat(LonTaipei))
    /\ ref_projections = 1
    /\ op = "__init__"
    /\ ret = "None"
    /\ out = <<>>
    /\ transform_log = <<>>
    /\ pc = "idle"
    /\ calls = <<>>
    /\ aqi_map = NoMap

\* An entry of calls: the method run() called and what it returned (or raised).
Call(method, returned) == [method |-> method, returned |-> returned]

\* run() is not executing: a method may be called.
Idle == pc \in {"idle", "run_returned_True", "run_returned_False", "run_raised"}

\* A call from outside run(): the record of the last run() is dropped.
OutsideRun == pc' = "idle" /\ calls' = <<>> /\ aqi_map' = NoMap

\* What the methods leave behind, r being what the method's operator gives.
Fetched(r) ==
    /\ aqi_data' = r.aqi_data
    /\ ret' = r.ret
    /\ op' = "fetch_aqi_data"
    /\ out' = <<>>
    /\ transform_log' = <<>>
    /\ UNCHANGED <<proj_ok, taipei_station_twd97, ref_projections>>

Measured(lat, lon, r) ==
    /\ out' = [lat |-> lat, lon |-> lon, distance |-> r.ret]
    /\ transform_log' = r.transformed
    /\ ref_projections' = ref_projections + r.ref_projected
    /\ op' = "calculate_distance_twd97"
    /\ ret' = "None"
    /\ UNCHANGED <<proj_ok, aqi_data, taipei_station_twd97>>

Exported(r) ==
    /\ ret' = r.ret
    /\ out' = [rows |-> r.rows, made |-> r.made, written |-> r.written]
    /\ transform_log' = r.transformed
    /\ ref_projections' = ref_projections + r.ref_projected
    /\ op' = "export_to_csv"
    /\ UNCHANGED <<proj_ok, aqi_data, taipei_station_twd97>>

Mapped(r) ==
    /\ ret' = r.ret
    /\ out' = r.map
    /\ op' = "create_map"
    /\ transform_log' = <<>>
    /\ UNCHANGED <<proj_ok, aqi_data, taipei_station_twd97, ref_projections>>

Saved(map_obj, io_ok) ==
    /\ ret' = save_map(map_obj, io_ok)
    /\ out' = [saved |-> map_obj.is_map /\ io_ok]
    /\ op' = "save_map"
    /\ transform_log' = <<>>
    /\ UNCHANGED <<proj_ok, aqi_data, taipei_station_twd97, ref_projections>>

(***************************************************************************)
(* Calls of the public methods.                                            *)
(***************************************************************************)
Fetch(resp) == Idle /\ Fetched(fetch_aqi_data(resp)) /\ OutsideRun

Classify(aqi_value) ==
    /\ Idle
    /\ op' = "classify"
    /\ ret' = "None"
    /\ out' = [arg |-> aqi_value,
               color |-> get_aqi_color(aqi_value),
               level |-> get_aqi_level(aqi_value)]
    /\ transform_log' = <<>>
    /\ OutsideRun
    /\ UNCHANGED <<proj_ok, aqi_data, taipei_station_twd97, ref_projections>>

CalculateDistance(lat, lon) ==
    Idle /\ Measured(lat, lon, calculate_distance_twd97(Self, lat, lon)) /\ OutsideRun

ExportToCsv(dir_ok, io_ok) ==
    Idle /\ Exported(export_to_csv(dir_ok, io_ok)) /\ OutsideRun

CreateMap == Idle /\ Mapped(create_map) /\ OutsideRun

\* The map objects a caller may hold: None, a map of its own making (here
\* one without markers), the map create_map just returned, the map of the
\* last run().
MapObjects ==
    {NoMap, Map([markers |-> <<>>, valid_stations |-> 0])}
    \cup {aqi_map}
    \cup (IF op = "create_map" /\ ret = "Map" THEN {out} ELSE {})

\* save_map(map_obj), at any time and on any map object.
SaveMap(io_ok) ==
    /\ Idle
    /\ \E map_obj \in MapObjects : Saved(map_obj, io_ok)
    /\ OutsideRun

(***************************************************************************)
(* run() (lines 284-319), one step per method it calls.                    *)
(***************************************************************************)
RunStart ==
    /\ Idle
    /\ pc' = "run_fetch"
    /\ calls' = <<>>
    /\ aqi_map' = NoMap
    /\ op' = "run"
    /\ ret' = "None"
    /\ out' = <<>>
    /\ transform_log' = <<>>
    /\ UNCHANGED <<proj_ok, aqi_data, taipei_station_twd97, ref_projections>>

\* lines 291-293
AfterFetch(r) ==
    /\ Fetched(r)
    /\ pc' = IF r.ret = "True" THEN "run_create" ELSE "run_returned_False"
    /\ calls' = Append(calls, Call("fetch_aqi_data", r.ret))
    /\ UNCHANGED aqi_map

RunFetch(resp) == pc = "run_fetch" /\ AfterFetch(fetch_aqi_data(resp))

\* A variant that does not test the map for None.
AfterCreate_unchecked(r) ==
    /\ Mapped(r)
    /\ aqi_map' = IF r.ret = "Map" THEN r.map ELSE NoMap
    /\ pc' = IF r.ret \in {"Map", "None"} THEN "run_save" ELSE "run_raised"
    /\ calls' = Append(calls, Call("create_map", r.ret))

\* lines 296-299; an exception of create_map leaves run().
AfterCreate(r) ==
    /\ Mapped(r)
    /\ aqi_map' = IF r.ret = "Map" THEN r.map ELSE NoMap
    /\ pc' = CASE r.ret = "Map"  -> "run_save"
               [] r.ret = "None" -> "run_returned_False"
               [] OTHER          -> "run_raised"
    /\ calls' = Append(calls, Call("create_map", r.ret))

RunCreate == pc = "run_create" /\ AfterCreate(create_map)

\* line 308
AfterSave(io_ok) ==
    /\ Saved(aqi_map, io_ok)
    /\ pc' = "run_export"
    /\ calls' = Append(calls, Call("save_map", save_map(aqi_map, io_ok)))

\* line 306: os.makedirs is in no try block; when it raises, run() is left
\* by the exception and save_map is not called.
MakedirsRaised ==
    /\ pc' = "run_raised"
    /\ UNCHANGED <<proj_ok, aqi_data, taipei_station_twd97, ref_projections,
                   op, ret, out, transform_log, calls>>

\* lines 302-309
RunSave(dir_ok, io_ok) ==
    /\ pc = "run_save"
    /\ IF dir_ok THEN AfterSave(io_ok) ELSE MakedirsRaised
    /\ UNCHANGED aqi_map

\* lines 313-319
AfterExport(r) ==
    /\ Exported(r)
    /\ pc' = "run_returned_True"
    /\ calls' = Append(calls, Call("export_to_csv", r.ret))
    /\ UNCHANGED aqi_map

RunExport(dir_ok, io_ok) ==
    pc = "run_export" /\ AfterExport(export_to_csv(dir_ok, io_ok))

\* What the file system does to a call: the outputs directory is there or
\* not, and a file in it can be written or not (never without it).
FileOutcomes(dir_ok) == IF dir_ok THEN BOOLEAN ELSE {FALSE}

Next ==
    \/ \E resp \in Responses : Fetch(resp)
    \/ \E station \in Stations :
           CalculateDistance(get(station, "latitude", PyInt(0)),
                             get(station, "longitude", PyInt(0)))
    \/ \E dir_ok \in BOOLEAN : \E io_ok \in FileOutcomes(dir_ok) :
           ExportToCsv(dir_ok, io_ok)
    \/ CreateMap
    \/ \E io_ok \in BOOLEAN : SaveMap(io_ok)
    \/ RunStart
    \/ \E resp \in Responses : RunFetch(resp)
    \/ RunCreate
    \/ \E dir_ok \in BOOLEAN : \E io_ok \in FileOutcomes(dir_ok) :
           RunSave(dir_ok, io_ok)
    \/ \E dir_ok \in BOOLEAN : \E io_ok \in FileOutcomes(dir_ok) :
           RunExport(dir_ok, io_ok)

Spec == Init /\ [][Next]_vars

(***************************************************************************)
(* The classifier and the distance called directly, on a wider set of      *)
(* arguments.                                                              *)
(***************************************************************************)
MaxAqi == 105
HugeInt == 2147483646 + 1

AqiInputs ==
    {PyInt(k) : k \in (-3)..MaxAqi}
    \cup {PyInt(HugeInt), PyInt(-HugeInt)}
    \cup {PyFloat(0), PyFloat(50500000), PyFloat(51000000),
          PyFloat(100900000), PyFloat(101000000),
          PyFloat(-500000), PyFloat(-5000000), Float(1234567891, -7)}
    \cup {PyInf, PyNegInf, PyNaN, PyNone}
    \cup {PyStr(S_Empty), PyStr(S_NA), PyStr(<<"2", "5">>), PyStr(<<"7", "5">>),
          PyStr(<<"1", "5", "0">>), PyStr(<<"-", "5">>),
          PyStr(<<" ", "5", "0", " ">>), PyStr(<<"+", "5", "1">>),
          PyStr(<<"1", "_", "0", "_", "0">>), PyStr(<<"1", "2", ".", "5">>),
          PyStr(<<"5", " ", "0">>), PyStr(<<"1", "_", "_", "0">>),
          PyStr(<<"_", "1">>), PyStr(<<"-">>), PyStr(<<" ">>),
          PyStr(<<"\t", "5", "0", "\n">>), PyStr(<<"1", "0", "1", "\r", "\n">>),
          PyStr(<<"\f", "7", "5">>), PyStr(<<"", "5", "0", "">>),
          PyStr(<<"1", "e", "2">>),
          PyStr(<<"i", "n", "f">>), PyStr(<<"n", "a", "n">>)}

\* Latitudes and longitudes as numbers and as strings: plain, with
\* whitespace, underscores, an exponent, more than six decimals, beyond the
\* range of a double, non-finite, not numeric.
LatInputs ==
    {PyFloat(LatTaipei), PyFloat(LatKeelung), PyInt(0), PyFloat(0),
     PyInf, PyNaN, PyNone,
     PyStr(S_LatTaipei), PyStr(S_LatKeelung), PyStr(<<"0">>),
     PyStr(<<" ">> \o S_LatTaipei), PyStr(<<"\t">> \o S_LatTaipei \o <<"\n">>),
     PyStr(<<"">> \o S_LatKeelung),
     PyStr(<<"2", "_", "5", ".", "0", "4", "7", "8", "0", "0", "0", "0">>),
     PyStr(<<"2", ".", "5", "0", "4", "7", "8", "e", "1">>),
     PyStr(<<"2", "5", "1", "2", "9", "1", "6", "7", "E", "-", "6">>),
     PyStr(<<"-", "9", "0", ".", "0", "0", "0", "0", "0", "0", "1">>),
     PyStr(<<"1", "e", "2">>), PyStr(<<"1", "e", "4", "0", "0">>),
     PyStr(<<"-", "1", "e", "-", "4", "0", "0">>),
     PyStr(<<"i", "n", "f">>), PyStr(<<"-", "I", "n", "f", "i", "n", "i", "t", "y">>),
     PyStr(<<"n", "a", "n">>), PyStr(<<"1", "e">>), PyStr(<<".">>),
     PyStr(S_NA), PyStr(S_Empty)}

LonInputs ==
    {PyFloat(LonTaipei), PyFloat(LonKeelung), PyInt(0), PyFloat(0),
     PyNegInf, PyNone,
     PyStr(S_LonTaipei), PyStr(S_LonKeelung), PyStr(<<"0", ".", "0">>),
     PyStr(S_LonTaipei \o <<" ">>), PyStr(<<"\r", "\n">> \o S_LonKeelung),
     PyStr(<<"+", "1", ".", "2", "1", "5", "1", "7", "E", "+", "2">>),
     PyStr(<<"N", "a", "N">>), PyStr(<<".", "0", "e", "5">>),
     PyStr(S_NA), PyStr(S_Empty)}

NextCore ==
    \/ \E aqi_value \in AqiInputs : Classify(aqi_value)
    \/ \E lat \in LatInputs, lon \in LonInputs : CalculateDistance(lat, lon)

SpecCore == Init /\ [][NextCore]_vars

(***************************************************************************)
(* Properties.                                                             *)
(***************************************************************************)
IsClassified(aqi_value) ==
    get_aqi_color(aqi_value).exc = "none" /\ get_aqi_level(aqi_value).exc = "none"

\* C1: classification is total: for every AQI input (None, empty string,
\* non-numeric string, negative number, huge number, non-finite number) both
\* get_aqi_color and get_aqi_level return a value and raise nothing.
C1_ClassificationIsTotal ==
    op = "classify" => out.color.exc = "none" /\ out.level.exc = "none"

\* C2: for every AQI input the pair (color, level) is the row of the table
\* selected by first match: no integer -> (#808080, abnormal data); 0..50 ->
\* (#00E400, good); 51..100 -> (#FFFF00, moderate); 101 or more -> (#FF0000,
\* unhealthy); color and level always come from the same row.
C2_PairIsTableRow ==
    op = "classify" =>
        /\ out.color.exc = "none"
        /\ out.level.exc = "none"
        /\ <<out.color.v, out.level.v>> \in
               { <<"#808080", "abnormal data">>, <<"#00E400", "good">>,
                 <<"#FFFF00", "moderate">>, <<"#FF0000", "unhealthy">> }
        /\ py_int(out.arg).exc # "none" =>
               <<out.color.v, out.level.v>> = <<"#808080", "abnormal data">>
        /\ py_int(out.arg).exc = "none" =>
               /\ py_int(out.arg).v.n \in 0..50 =>
                      <<out.color.v, out.level.v>> = <<"#00E400", "good">>
               /\ py_int(out.arg).v.n \in 51..100 =>
                      <<out.color.v, out.level.v>> = <<"#FFFF00", "moderate">>
               /\ py_int(out.arg).v.n >= 101 =>
                      <<out.color.v, out.level.v>> = <<"#FF0000", "unhealthy">>

ProjectionFails(station) ==
    ~wgs84_to_twd97(get(station, "latitude", PyInt(0)),
                    get(station, "longitude", PyInt(0))).some

RowsOf(i) == { k \in 1..Len(out.rows) : out.rows[k].station = i }

\* C3: a transform failure is not fatal: for every station whose projection
\* fails, export_to_csv still emits one row for that station, with the
\* distance absent and the other fields populated (in an export that got as
\* far as its stations: the outputs directory is there).
C3_FailedProjectionKeepsRow ==
    (op = "export_to_csv" /\ out.made /\ Sized(aqi_data)) =>
        \A i \in 1..Len(aqi_data.v) :
            (IsDict(aqi_data.v[i]) /\ ProjectionFails(aqi_data.v[i])) =>
                /\ Cardinality(RowsOf(i)) = 1
                /\ \A k \in RowsOf(i) :
                       /\ ~out.rows[k].distance.some
                       /\ out.rows[k].AQI = get(aqi_data.v[i], "aqi", PyStr(S_NA))
                       /\ out.rows[k].lat = get(aqi_data.v[i], "latitude", PyInt(0))
                       /\ out.rows[k].lon = get(aqi_data.v[i], "longitude", PyInt(0))

\* C4: the reference point is projected exactly once, in the constructor:
\* no call of fetch_aqi_data, calculate_distance_twd97, export_to_csv,
\* create_map, save_map or run projects it again or reassigns
\* taipei_station_twd97, whatever the number of stations processed.
C4_ReferenceProjectedOnce ==
    /\ ref_projections = 1
    /\ taipei_station_twd97 =
           IF proj_ok THEN EPSG3826(PyFloat(LatTaipei), PyFloat(LonTaipei))
           ELSE None

\* C4's case: run() has exported several stations, each with a distance.
C4_Witness ==
    /\ pc = "run_returned_True"
    /\ op = "export_to_csv"
    /\ Len(out.rows) >= 2
    /\ \A k \in 1..Len(out.rows) : out.rows[k].distance.some

IsNumber(x) == x.t \in {"int", "float", "inf", "nan"}

\* C5: on the path export_to_csv -> calculate_distance_twd97 ->
\* wgs84_to_twd97 every latitude and longitude is coerced to a number or
\* rejected before it is passed to the projection: no raw string and no
\* missing value reaches the transform.
C5_OnlyNumbersReachTransform ==
    op = "export_to_csv" =>
        \A k \in 1..Len(transform_log) :
            IsNumber(transform_log[k][1]) /\ IsNumber(transform_log[k][2])

AtReference(lat, lon) ==
    /\ py_float(lat).exc = "none" /\ py_float(lat).v = PyFloat(LatTaipei)
    /\ py_float(lon).exc = "none" /\ py_float(lon).v = PyFloat(LonTaipei)

\* The distance calculate_distance_twd97 gives for the point (lat, lon) on a
\* generator whose reference point is (lat, lon) itself: the distance
\* between project(P) and project(P).
SelfDistance(lat, lon) ==
    calculate_distance_twd97([taipei_station_twd97 |-> wgs84_to_twd97(lat, lon)],
                             lat, lon).ret

\* C6, as amended: self-distance is zero for any point P whose projection is
\* finite: the distance between project(P) and project(P) is 0.0; in
\* particular calculate_distance_twd97 called with the reference point's own
\* coordinates on a successfully constructed generator returns 0.00.
C6_SelfDistanceIsZero ==
    op = "calculate_distance_twd97" =>
        /\ (taipei_station_twd97.some /\ AtReference(out.lat, out.lon)) =>
               out.distance = Distance(0)
        /\ wgs84_to_twd97(out.lat, out.lon).kind = "finite" =>
               SelfDistance(out.lat, out.lon) = Distance(0)

\* C6's case: the reference coordinates, given as a string and a number.
C6_Witness ==
    /\ op = "calculate_distance_twd97"
    /\ out.lat = PyStr(S_LatTaipei)
    /\ out.lon = PyFloat(LonTaipei)
    /\ out.distance = Distance(0)
    /\ SelfDistance(out.lat, out.lon) = Distance(0)

\* A point: a latitude and a longitude that are finite numbers.
IsFinite(x) == py_float(x).exc = "none" /\ py_float(x).v.t = "float"

\* C6, as stated: self-distance is zero for any point P (any finite latitude
\* and longitude that project() gives a projection for), and
\* calculate_distance_twd97 called with the reference point's own
\* coordinates returns 0.00.
C6_SelfDistanceOfAnyPoint ==
    op = "calculate_distance_twd97" =>
        /\ (taipei_station_twd97.some /\ AtReference(out.lat, out.lon)) =>
               out.distance = Distance(0)
        /\ (/\ IsFinite(out.lat) /\ IsFinite(out.lon)
            /\ wgs84_to_twd97(out.lat, out.lon).some) =>
               SelfDistance(out.lat, out.lon) = Distance(0)

NonZeroCoords(station) ==
    /\ IsDict(station)
    /\ py_float(get(station, "latitude", PyInt(0))).exc = "none"
    /\ py_float(get(station, "longitude", PyInt(0))).exc = "none"
    /\ ~IsZero(py_float(get(station, "latitude", PyInt(0))).v)
    /\ ~IsZero(py_float(get(station, "longitude", PyInt(0))).v)

HasMarker(i) == \E k \in 1..Len(out.markers) : out.markers[k].station = i

\* C7: create_map adds a marker for a station exactly when float(latitude)
\* and float(longitude) are both non-zero (a missing field defaults to 0 and
\* gets no marker), and valid_stations equals the number of markers added.
C7_MarkerIffNonZero ==
    (op = "create_map" /\ Sized(aqi_data)) =>
        /\ \A i \in 1..Len(aqi_data.v) :
               HasMarker(i) <=> NonZeroCoords(aqi_data.v[i])
        /\ out.valid_stations = Len(out.markers)

\* C8: in create_map one malformed record never aborts the rest: a record
\* whose latitude or longitude cannot be converted to a number (a non-numeric
\* string, a present-but-null value) is skipped, create_map does not raise,
\* and every well-formed station with non-zero coordinates gets its marker.
\* Stated for data whose AQI values all classify.
C8_MalformedRecordSkipped ==
    (/\ op = "create_map"
     /\ Sized(aqi_data)
     /\ \A i \in 1..Len(aqi_data.v) :
            IsDict(aqi_data.v[i]) =>
                IsClassified(get(aqi_data.v[i], "aqi", PyStr(S_NA)))) =>
        /\ ret \in {"Map", "None"}
        /\ \A i \in 1..Len(aqi_data.v) :
               NonZeroCoords(aqi_data.v[i]) => HasMarker(i)

\* C9: a failed fetch leaves the stored data untouched: whenever
\* fetch_aqi_data returns False, self.aqi_data is what it was before the call.
C9_FailedFetchKeepsData ==
    [][(op' = "fetch_aqi_data" /\ ret' = "False") => aqi_data' = aqi_data]_vars

RunSequence ==
    <<"fetch_aqi_data", "create_map", "save_map", "export_to_csv">>

Called(method) == \E k \in 1..Len(calls) : calls[k].method = method

\* C10: in every execution of run() the steps occur in the order
\* fetch_aqi_data, create_map, save_map, export_to_csv; save_map and
\* export_to_csv are called only after fetch_aqi_data returned True and
\* create_map returned a map; whenever run() returns False neither save_map
\* nor export_to_csv has been called.
C10_RunOrder ==
    /\ Len(calls) <= Len(RunSequence)
    /\ \A k \in 1..Len(calls) : calls[k].method = RunSequence[k]
    /\ (Called("save_map") \/ Called("export_to_csv")) =>
           /\ calls[1].returned = "True"
           /\ calls[2].returned = "Map"
           /\ aqi_map.is_map
    /\ pc = "run_returned_False" =>
           ~Called("save_map") /\ ~Called("export_to_csv")
    /\ pc = "run_returned_True" => Len(calls) = Len(RunSequence)

\* C10's case: run() went through its four steps and returned True.
C10_Witness ==
    /\ pc = "run_returned_True"
    /\ Len(calls) = 4
    /\ calls[3].method = "save_map"
    /\ calls[4].method = "export_to_csv"

====
